---- MODULE Spec2Model ----
(***************************************************************************)
(* Model of the stream-consumption engine of twitterTrade.js: filter(),    *)
(* stream(), the 'data' and 'error' listeners of the response body, the    *)
(* abort timer, the reconnect timers and the calls of processTweet().      *)
(*                                                                         *)
(* g_backoff is counted in quarter seconds (the step of line 631), so that *)
(* every value the code can store is an integer: Sec(n) is n seconds.      *)
(* Timer delays are in milliseconds, as the code passes them to            *)
(* setTimeout.                                                             *)
(***************************************************************************)
EXTENDS Integers, Sequences, FiniteSets, Bags

VARIABLES
    proc,       \* "running", "exited" (process.exit) or "crashed" (killed by the runtime)
    g_backoff,  \* the global g_backoff, in quarter seconds
    g_reader,   \* the global g_reader: 0 while undefined, else the attempt whose body it is
    sess,       \* one record per call of stream(), in call order
    timers,     \* bag of the pending reconnect timers: the attempt that set it, its delay (ms)
    outcome,    \* history: what the last handler that ended or opened an attempt did
    run,        \* history: kind and length of the current run of equal delayed outcomes
    rx,         \* history: the 'data' event the last step handled, NoRx if it handled none
    consumers   \* the calls of processTweet() that have not returned, and how the last one ended

vars == <<proc, g_backoff, g_reader, sess, timers, outcome, run, rx, consumers>>

----------------------------------------------------------------------------
(* Bounds *)

\* Calls of stream() plus pending reconnect timers explored by Spec.
MaxAttempts == 3

\* The same under SpecSeq, where a body emits nothing after its 'error' event.
MaxSeq == 8

\* The same under SpecRamp, where every response is 200 and every error ETIMEDOUT.
MaxRamp == 66

\* The same under SpecLate, where a body emits 'data' after the program's own abort.
MaxLate == 4

\* The same under SpecData, where the chunks are of every kind.
MaxData == 3

\* Characters of the text of a tweet under SpecData.
MaxLen == 3

\* Calls of stream() plus pending reconnect timers explored by SpecFlow.
MaxFlow == 5

\* Calls of processTweet() pending at once.
MaxPending == 2

----------------------------------------------------------------------------
(* Constants of the program *)

ABORT_TIMEOUT == 90

\* n seconds as a value of g_backoff
Sec(n) == 4 * n

\* g_backoff * 1000, the delay handed to setTimeout
Millis(b) == b * 250

\* statuses the connection opener may answer with
Statuses == {200, 201, 204, 304, 401, 404, 420, 429, 500, 501, 502, 503, 504, 505}

\* what a rejected fetch or an 'error' event of the body may carry, other than AbortError
TransportErrors == {"ETIMEDOUT", "OTHER"}

\* what the runtime does with a rejected promise nobody handles, or an
\* 'error' event nobody listens to: a warning, or the end of the process
Unhandled == {"running", "crashed"}

----------------------------------------------------------------------------
(* Backoff arithmetic of the handlers *)

\* Slip: the cap of lines 632-634 left out.
TimeoutBackoff_NoCap(b) == b + 1

\* lines 631-634
TimeoutBackoff(b) ==
    LET n == b + 1 IN IF n > Sec(16) THEN Sec(16) ELSE n

\* Slip: 60 s taken as a floor, a larger backoff kept.
NotModifiedBackoff_Floor(b) == IF b > Sec(60) THEN b ELSE Sec(60)

\* line 648
NotModifiedBackoff(b) == Sec(60)

\* Slip: the cap of the 5xx branch copied into the 420/429 branch.
RateLimitBackoff_Capped(b) ==
    IF b = 0 THEN Sec(60)
    ELSE LET n == b * 2 IN IF n > Sec(320) THEN Sec(320) ELSE n

\* lines 655-660
RateLimitBackoff(b) ==
    IF b = 0 THEN Sec(60) ELSE b * 2

\* Slip: the cap of lines 674-676 left out.
ServerErrorBackoff_NoCap(b) ==
    IF b = 0 THEN Sec(5) ELSE b * 2

\* Slip: a linear ramp in place of the doubling of line 673.
ServerErrorBackoff_Linear(b) ==
    IF b = 0 THEN Sec(5)
    ELSE LET n == b + Sec(5) IN IF n > Sec(320) THEN Sec(320) ELSE n

\* lines 669-677
ServerErrorBackoff(b) ==
    IF b = 0 THEN Sec(5)
    ELSE LET n == b * 2 IN IF n > Sec(320) THEN Sec(320) ELSE n

----------------------------------------------------------------------------
(* Sessions: the closure of one call of stream() *)

attempts == Len(sess)

\* the closure right after lines 591-601: timer armed, fetch in flight
NewSession ==
    [phase |-> "connecting", abortTimer |-> ABORT_TIMEOUT * 1000,
     aborted |-> FALSE, listeners |-> FALSE, emitting |-> FALSE]

\* a closure nothing can run any more
Dead ==
    [phase |-> "done", abortTimer |-> 0,
     aborted |-> FALSE, listeners |-> FALSE, emitting |-> FALSE]

\* a closure with no fetch in flight, no timer and no listener that can be
\* called is garbage
Collect(s) ==
    IF s.phase # "connecting" /\ s.abortTimer = 0 /\ ~(s.listeners /\ s.emitting)
    THEN Dead ELSE s

CollectAll(f) == [j \in DOMAIN f |-> Collect(f[j])]

\* filter() awaits only its own call of stream(), the first one
FromFilter(i) == i = 1

\* g_reader.removeAllListeners()
RemoveAllListeners(f) ==
    IF g_reader = 0 THEN f ELSE [f EXCEPT ![g_reader].listeners = FALSE]

\* clearTimeout(abortTimer) in the closure of attempt i
ClearAbortTimer(f, i) == [f EXCEPT ![i].abortTimer = 0]

\* a call of stream() up to its await
StartStream(f) == Append(f, NewSession)

Budget(lim) == attempts + BagCardinality(timers) < lim

\* the attempts that produced an outcome and whose body still emits
Late == {j \in 1..attempts : sess[j].phase = "ended" /\ sess[j].emitting}

\* History record of a handler: the outcome it produced (kind), for which
\* attempt (att), where the event arrived (at: the awaited fetch or the
\* body), on which status or error, g_backoff before (prev) and after (new),
\* the delay of the reconnect timer it set (-1: none), what it did next
\* (action) and the number of calls of stream() when it returned.
NoOutcome ==
    [seq |-> 0, kind |-> "None", att |-> 0, at |-> "", status |-> 0, err |-> "",
     prev |-> 0, new |-> 0, delay |-> -1, action |-> "none", calls |-> 0]

Outcome(kind, i, status, err, new, delay, action, calls) ==
    [seq |-> outcome.seq + 1, kind |-> kind, att |-> i,
     at |-> IF sess[i].phase = "connecting" THEN "fetch" ELSE "body",
     status |-> status, err |-> err, prev |-> g_backoff, new |-> new,
     delay |-> delay, action |-> action, calls |-> calls]

NoRun == [kind |-> "None", n |-> 0]

\* the run after a delayed outcome of this kind
NextRun(kind) ==
    IF g_backoff = 0 THEN [kind |-> kind, n |-> 1]
    ELSE IF run.kind = kind THEN [kind |-> kind, n |-> run.n + 1]
    ELSE [kind |-> "Mixed", n |-> 0]

----------------------------------------------------------------------------
(* Chunks of the response body and what the 'data' listener makes of them *)

\* characters of a tweet: carriage return, line feed, '@', '#', and one other
Chars == {"CR", "LF", "@", "#", "a"}

Special == {"CR", "LF", "@", "#"}

\* the texts of at most n characters
Texts(n) == UNION {[1..k -> Chars] : k \in 0..n}

\* the keep-alive of the endpoint, "\r\n": JSON.parse throws (line 608)
Heartbeat == [kind |-> "heartbeat", text |-> << >>]

\* JSON without a data member: json.data.text throws (line 609)
NoData == [kind |-> "nodata", text |-> << >>]

\* JSON whose data has no text string: .replace throws (line 609)
NoText == [kind |-> "notext", text |-> << >>]

\* JSON with data.text = t
Tweet(t) == [kind |-> "tweet", text |-> t]

\* the chunk of the specifications that explore the reconnections, where
\* the handler does the same to the stream whatever the chunk
Chunks == {Heartbeat}

\* keep-alives and tweets
FlowChunks == {Heartbeat, Tweet(<<"a">>)}

\* the chunks of SpecData
AllChunks == {Heartbeat, NoData, NoText} \cup {Tweet(t) : t \in Texts(MaxLen)}

\* lines 608-609 run to the end without a throw
Decodes(c) == c.kind = "tweet"

RECURSIVE Sanitize_PerChar(_)
\* Slip: the pattern /\r|\n|@|#/g, every character replaced on its own.
Sanitize_PerChar(t) ==
    IF t = << >> THEN << >>
    ELSE <<IF Head(t) \in Special THEN " " ELSE Head(t)>> \o Sanitize_PerChar(Tail(t))

RECURSIVE Sanitize(_)
\* line 609: text.replace(/\r?\n|\r|@|#/g, ' ').  The matches are taken from
\* left to right, and at a carriage return the first alternative, \r?\n,
\* takes the line feed that follows with it.
Sanitize(t) ==
    IF t = << >> THEN << >>
    ELSE IF Len(t) >= 2 /\ t[1] = "CR" /\ t[2] = "LF"
    THEN <<" ">> \o Sanitize(Tail(Tail(t)))
    ELSE <<IF Head(t) \in Special THEN " " ELSE Head(t)>> \o Sanitize(Tail(t))

\* Slip: the payload handed on whether or not the chunk decoded.
Forwarded_Unchecked(c) == <<Sanitize(c.text)>>

\* lines 607-614: the payloads processTweet() is called with
Forwarded(c) == IF Decodes(c) THEN <<Sanitize(c.text)>> ELSE << >>

\* Slip: the statements of the finally block moved in front of the try.
HandlerLog_RearmFirst(c) ==
    <<"g_backoff = 0", "clearTimeout", "setTimeout">>
    \o (IF Decodes(c) THEN <<"JSON.parse", "replace", "processTweet">>
        ELSE <<"JSON.parse">>)

\* lines 607-620: what the listener executes, in order.  The try block runs
\* up to its first throw, then the finally block.
HandlerLog(c) ==
    (IF Decodes(c) THEN <<"JSON.parse", "replace", "processTweet">>
     ELSE <<"JSON.parse">>)
    \o <<"g_backoff = 0", "clearTimeout", "setTimeout">>

NoRx == [att |-> 0, chunk |-> Heartbeat, forwarded |-> << >>, log |-> << >>]

\* processTweet() is an async function: a call returns a promise at its
\* first await (line 397) and goes on when the awaited request is answered
NoConsumers == [pending |-> 0, last |-> "none"]

\* line 610: one more call for every payload handed on, none awaited
Called(c) == [consumers EXCEPT !.pending = @ + Len(Forwarded(c))]

\* a chunk that would start a call is explored while fewer than MaxPending
\* calls are pending
Room(c) == Forwarded(c) # << >> => consumers.pending < MaxPending

----------------------------------------------------------------------------
(* Initial state: the module is loaded, filter() has not yet reached stream() *)

Init ==
    /\ proc = "running"
    /\ g_backoff = 0
    /\ g_reader = 0
    /\ sess = << >>
    /\ timers = EmptyBag
    /\ outcome = NoOutcome
    /\ run = NoRun
    /\ rx = NoRx
    /\ consumers = NoConsumers

----------------------------------------------------------------------------
(* filter(), lines 178-196 *)

\* lines 181-187: the set-up calls succeeded and filter() calls stream()
FilterStream ==
    /\ proc = "running"
    /\ attempts = 0
    /\ sess' = StartStream(sess)
    /\ rx' = NoRx
    /\ UNCHANGED consumers
    /\ UNCHANGED <<proc, g_backoff, g_reader, timers, outcome, run>>

\* lines 181-186 and 189-195: a set-up call threw, filter() exits
FilterFail ==
    /\ proc = "running"
    /\ attempts = 0
    /\ proc' = "exited"
    /\ rx' = NoRx
    /\ UNCHANGED consumers
    /\ UNCHANGED <<g_backoff, g_reader, sess, timers, outcome, run>>

----------------------------------------------------------------------------
(* stream(), lines 588-694 *)

\* The catch of lines 688-693, reached from a rejected fetch or from the
\* throw of the default case (lines 681-684): the promise of stream() is
\* rejected.  Only filter() awaits it inside a try (lines 187-195); the
\* callers of lines 627, 636, 650, 662 and 679 leave the rejection unhandled.
RejectStream(i, kind, status, err) ==
    /\ sess' = CollectAll([RemoveAllListeners(ClearAbortTimer(sess, i))
                              EXCEPT ![i].phase = "done"])
    /\ IF FromFilter(i)
       THEN /\ proc' = "exited"
            /\ outcome' = Outcome(kind, i, status, err, g_backoff, -1, "exit", attempts)
       ELSE /\ proc' \in Unhandled
            /\ outcome' = Outcome(kind, i, status, err, g_backoff, -1, "unhandled", attempts)
    /\ UNCHANGED <<g_backoff, g_reader, timers, run>>

\* Slip: a retry limit, no reconnect timer once two attempts were made.
Delayed_GiveUp(i, f, kind, status, err, new) ==
    /\ g_backoff' = new
    /\ sess' = CollectAll(ClearAbortTimer(f, i))
    /\ timers' = IF attempts >= 2 THEN timers
                 ELSE timers (+) SetToBag({[att |-> i, delay |-> Millis(new)]})
    /\ outcome' = Outcome(kind, i, status, err, new, Millis(new), "timer", attempts)
    /\ run' = NextRun(kind)
    /\ UNCHANGED <<proc, g_reader>>

\* The recoverable branches with a delay (lines 629-637, 646-680): store the
\* new backoff, clear the abort timer, schedule stream() after g_backoff * 1000.
\* f is sess with the closure of attempt i as the event leaves it.
Delayed(i, f, kind, status, err, new) ==
    /\ g_backoff' = new
    /\ sess' = CollectAll(ClearAbortTimer(f, i))
    /\ timers' = timers (+) SetToBag({[att |-> i, delay |-> Millis(new)]})
    /\ outcome' = Outcome(kind, i, status, err, new, Millis(new), "timer", attempts)
    /\ run' = NextRun(kind)
    /\ UNCHANGED <<proc, g_reader>>

\* lines 602-605 and 645: case 200, the listeners are attached
Opened(i) ==
    /\ g_reader' = i
    /\ sess' = [sess EXCEPT ![i].phase = "open", ![i].listeners = TRUE,
                            ![i].emitting = TRUE]
    /\ outcome' = Outcome("Opened", i, 200, "", g_backoff, -1, "none", attempts)
    /\ UNCHANGED <<proc, g_backoff, timers, run>>

\* Slip: one backoff per kind of outcome, each rule applied to the value its
\* own kind left and to 0 after an outcome of another kind.
Response_PerKind(i, st) ==
    /\ proc = "running"
    /\ i \in 1..attempts
    /\ sess[i].phase = "connecting"
    /\ LET f == [sess EXCEPT ![i].phase = "done"]
           own(kind) == IF run.kind = kind THEN g_backoff ELSE 0
       IN
       CASE st = 200 -> Opened(i)
         [] st = 304 ->
              Delayed(i, f, "NotModified", st, "", NotModifiedBackoff(own("NotModified")))
         [] st \in {420, 429} ->
              Delayed(i, f, "RateLimited", st, "", RateLimitBackoff(own("RateLimited")))
         [] st \in {500, 502, 503, 504} ->
              Delayed(i, f, "ServerError", st, "", ServerErrorBackoff(own("ServerError")))
         [] OTHER -> RejectStream(i, "ClientError", st, "")
    /\ rx' = NoRx
    /\ UNCHANGED consumers

\* lines 595-686: the fetch resolved with a response of status st
Response(i, st) ==
    /\ proc = "running"
    /\ i \in 1..attempts
    /\ sess[i].phase = "connecting"
    /\ LET f == [sess EXCEPT ![i].phase = "done"] IN
       CASE st = 200 -> Opened(i)
         [] st = 304 ->
              Delayed(i, f, "NotModified", st, "", NotModifiedBackoff(g_backoff))
         [] st \in {420, 429} ->
              Delayed(i, f, "RateLimited", st, "", RateLimitBackoff(g_backoff))
         [] st \in {500, 502, 503, 504} ->
              Delayed(i, f, "ServerError", st, "", ServerErrorBackoff(g_backoff))
         [] OTHER -> RejectStream(i, "ClientError", st, "")
    /\ rx' = NoRx
    /\ UNCHANGED consumers

\* lines 595-601 and 688-693: the fetch was rejected by the transport
FetchReject(i, e) ==
    /\ proc = "running"
    /\ i \in 1..attempts
    /\ sess[i].phase = "connecting"
    /\ RejectStream(i, "FatalTransport", 0, e)
    /\ rx' = NoRx
    /\ UNCHANGED consumers

\* Slip: the statements of the finally block moved to the end of the try
\* block, so that they run only for a chunk that decodes.
Data_ResetInTry(i, c) ==
    /\ proc = "running"
    /\ i \in 1..attempts
    /\ sess[i].listeners /\ sess[i].emitting
    /\ g_backoff' = IF Decodes(c) THEN 0 ELSE g_backoff
    /\ sess' = IF Decodes(c) THEN [sess EXCEPT ![i].abortTimer = ABORT_TIMEOUT * 1000]
               ELSE sess
    /\ run' = IF Decodes(c) THEN NoRun ELSE run
    /\ rx' = [att |-> i, chunk |-> c, forwarded |-> Forwarded(c), log |-> HandlerLog(c)]
    /\ Room(c)
    /\ consumers' = Called(c)
    /\ UNCHANGED <<proc, g_reader, timers, outcome>>

\* Slip: processTweet() awaited, the listener takes no chunk while a call
\* is pending.
Data_AwaitsConsumer(i, c) ==
    /\ proc = "running"
    /\ i \in 1..attempts
    /\ sess[i].listeners /\ sess[i].emitting
    /\ consumers.pending = 0
    /\ g_backoff' = 0
    /\ sess' = [sess EXCEPT ![i].abortTimer = ABORT_TIMEOUT * 1000]
    /\ run' = NoRun
    /\ rx' = [att |-> i, chunk |-> c, forwarded |-> Forwarded(c), log |-> HandlerLog(c)]
    /\ Room(c)
    /\ consumers' = Called(c)
    /\ UNCHANGED <<proc, g_reader, timers, outcome>>

\* lines 606-621: the 'data' listener is called with chunk c.  Whatever the
\* chunk, g_backoff is reset and the abort timer is cleared and armed again.
Data(i, c) ==
    /\ proc = "running"
    /\ i \in 1..attempts
    /\ sess[i].listeners /\ sess[i].emitting
    /\ g_backoff' = 0
    /\ sess' = [sess EXCEPT ![i].abortTimer = ABORT_TIMEOUT * 1000]
    /\ run' = NoRun
    /\ rx' = [att |-> i, chunk |-> c, forwarded |-> Forwarded(c), log |-> HandlerLog(c)]
    /\ Room(c)
    /\ consumers' = Called(c)
    /\ UNCHANGED <<proc, g_reader, timers, outcome>>

\* Slip: line 625 left out, the backoff survives the self-inflicted timeout.
SelfTimeout_KeepsBackoff(i, f) ==
    /\ sess' = StartStream(CollectAll(ClearAbortTimer(f, i)))
    /\ outcome' = Outcome("SelfTimeout", i, 0, "AbortError", g_backoff, -1, "now",
                          attempts + 1)
    /\ run' = NoRun
    /\ UNCHANGED <<proc, g_backoff, g_reader, timers>>

\* lines 622-628: the AbortError branch of the 'error' listener.
\* f is sess with the closure of attempt i as the event leaves it.
SelfTimeout(i, f) ==
    /\ g_backoff' = 0
    /\ sess' = StartStream(CollectAll(ClearAbortTimer(f, i)))
    /\ outcome' = Outcome("SelfTimeout", i, 0, "AbortError", 0, -1, "now", attempts + 1)
    /\ run' = NoRun
    /\ UNCHANGED <<proc, g_reader, timers>>

\* lines 638-643: the last branch of the 'error' listener
FatalError(i, f, e) ==
    /\ sess' = CollectAll(RemoveAllListeners(ClearAbortTimer(f, i)))
    /\ proc' = "exited"
    /\ outcome' = Outcome("FatalTransport", i, 0, e, g_backoff, -1, "exit", attempts)
    /\ UNCHANGED <<g_backoff, g_reader, timers, run>>

\* lines 622-644: the body emits 'error' with a transport error.  The
\* listeners stay attached on the recoverable branches, and the body may or
\* may not emit again.
StreamError(i, e) ==
    /\ proc = "running"
    /\ i \in 1..attempts
    /\ sess[i].listeners /\ sess[i].emitting
    /\ \E em \in BOOLEAN :
         LET f == [sess EXCEPT ![i].phase = "ended", ![i].emitting = em] IN
         IF e = "ETIMEDOUT"
         THEN Delayed(i, f, "TransportTimeout", 0, e, TimeoutBackoff(g_backoff))
         ELSE FatalError(i, f, e)
    /\ rx' = NoRx
    /\ UNCHANGED consumers

\* lines 592 and 619: an abort timer fires and calls controller.abort().
\* A signal aborts once.  A fetch in flight is rejected with AbortError;
\* a body with listeners gets 'error' with AbortError.
AbortFire(i) ==
    /\ proc = "running"
    /\ i \in 1..attempts
    /\ sess[i].abortTimer # 0
    /\ IF sess[i].aborted
       THEN /\ sess' = CollectAll(ClearAbortTimer(sess, i))
            /\ UNCHANGED <<proc, g_backoff, g_reader, timers, outcome, run>>
       ELSE IF sess[i].phase = "connecting"
       THEN RejectStream(i, "FatalTransport", 0, "AbortError")
       ELSE IF sess[i].listeners
       THEN \E em \in BOOLEAN :
              SelfTimeout(i, [sess EXCEPT ![i].phase = "ended", ![i].aborted = TRUE,
                                          ![i].emitting = em])
       ELSE /\ sess' = CollectAll([ClearAbortTimer(sess, i) EXCEPT ![i].aborted = TRUE])
            /\ proc' \in Unhandled
            /\ UNCHANGED <<g_backoff, g_reader, timers, outcome, run>>
    /\ rx' = NoRx
    /\ UNCHANGED consumers

\* lines 394-425: a pending call of processTweet() runs to its end
ConsumerDone ==
    /\ proc = "running"
    /\ consumers.pending > 0
    /\ consumers' = [pending |-> consumers.pending - 1, last |-> "resolved"]
    /\ rx' = NoRx
    /\ UNCHANGED <<proc, g_backoff, g_reader, sess, timers, outcome, run>>

\* lines 396-428: an awaited request of a pending call of processTweet()
\* throws; the catch of line 426 logs the error and the call returns
ConsumerFail ==
    /\ proc = "running"
    /\ consumers.pending > 0
    /\ consumers' = [pending |-> consumers.pending - 1, last |-> "failed"]
    /\ rx' = NoRx
    /\ UNCHANGED <<proc, g_backoff, g_reader, sess, timers, outcome, run>>

\* lines 636, 650, 662, 679: a reconnect timer fires and calls stream()
ReconnectFire(t) ==
    /\ proc = "running"
    /\ t \in BagToSet(timers)
    /\ timers' = timers (-) SetToBag({t})
    /\ sess' = StartStream(sess)
    /\ rx' = NoRx
    /\ UNCHANGED consumers
    /\ UNCHANGED <<proc, g_backoff, g_reader, outcome, run>>

----------------------------------------------------------------------------
(* Specifications *)

\* Every interleaving of the events, for at most lim calls of stream().  An
\* event that may call stream() or set a reconnect timer is taken only while
\* the call still fits, so that a timer that was set can always fire.
Step(lim) ==
    \/ FilterStream
    \/ FilterFail
    \/ \E t \in BagToSet(timers) : ReconnectFire(t)
    \/ \E i \in 1..attempts, c \in Chunks : Data(i, c)
    \/ \E i \in 1..attempts, e \in TransportErrors : FetchReject(i, e)
    \/ Budget(lim) /\ \E i \in 1..attempts, st \in Statuses : Response(i, st)
    \/ Budget(lim) /\ \E i \in 1..attempts, e \in TransportErrors : StreamError(i, e)
    \/ Budget(lim) /\ \E i \in 1..attempts : AbortFire(i)

Next == Step(MaxAttempts)

Spec == Init /\ [][Next]_vars

\* Timers fire: setTimeout callbacks run once their delay has passed.
FairSpec == Spec /\ WF_vars(\E t \in BagToSet(timers) : ReconnectFire(t))

\* Bodies that emit nothing after their 'error' event: attempts follow one another.
Quiet == Late' = {}

NextSeq ==
    \/ FilterStream
    \/ FilterFail
    \/ \E t \in BagToSet(timers) : ReconnectFire(t)
    \/ \E i \in 1..attempts, c \in Chunks : Data(i, c)
    \/ \E i \in 1..attempts, e \in TransportErrors : FetchReject(i, e)
    \/ Budget(MaxSeq) /\ \E i \in 1..attempts, st \in Statuses : Response(i, st)
    \/ Budget(MaxSeq) /\ \E i \in 1..attempts, e \in TransportErrors : StreamError(i, e) /\ Quiet
    \/ Budget(MaxSeq) /\ \E i \in 1..attempts : AbortFire(i) /\ Quiet

SpecSeq == Init /\ [][NextSeq]_vars

\* Streams that open and then time out at the transport, again and again.
NextRamp ==
    \/ FilterStream
    \/ \E t \in BagToSet(timers) : ReconnectFire(t)
    \/ \E i \in 1..attempts, c \in Chunks : Data(i, c)
    \/ Budget(MaxRamp) /\ \E i \in 1..attempts : Response(i, 200)
    \/ Budget(MaxRamp) /\ \E i \in 1..attempts : StreamError(i, "ETIMEDOUT") /\ Quiet

SpecRamp == Init /\ [][NextRamp]_vars

\* Bodies whose only event after an 'error' is 'data' after the abort of the
\* program's own timer: an abort does not take back what the connection has
\* already received.  A transport error ends the body.
NextLate ==
    \/ FilterStream
    \/ FilterFail
    \/ \E t \in BagToSet(timers) : ReconnectFire(t)
    \/ \E i \in 1..attempts, c \in FlowChunks : Data(i, c)
    \/ \E i \in 1..attempts, e \in TransportErrors : FetchReject(i, e)
    \/ Budget(MaxLate) /\ \E i \in 1..attempts, st \in Statuses : Response(i, st)
    \/ Budget(MaxLate) /\ \E i \in (1..attempts) \ Late, e \in TransportErrors :
                             StreamError(i, e) /\ ~sess'[i].emitting
    \/ Budget(MaxLate) /\ \E i \in 1..attempts : AbortFire(i)

SpecLate == Init /\ [][NextLate]_vars

\* One stream after another, answered with 200 or 503, and chunks of every kind.
NextData ==
    \/ FilterStream
    \/ \E t \in BagToSet(timers) : ReconnectFire(t)
    \/ \E i \in 1..attempts, c \in AllChunks : Data(i, c)
    \/ Budget(MaxData) /\ \E i \in 1..attempts, st \in {200, 503} : Response(i, st)

SpecData == Init /\ [][NextData]_vars

\* Periods of received data between reconnections: streams answered 200,
\* 429 or 503 that receive keep-alives and tweets and end on ETIMEDOUT or on
\* the abort timer, with bodies that emit nothing after their 'error' event.
NextFlow ==
    \/ FilterStream
    \/ \E t \in BagToSet(timers) : ReconnectFire(t)
    \/ \E i \in 1..attempts, c \in FlowChunks : Data(i, c)
    \/ Budget(MaxFlow) /\ \E i \in 1..attempts, st \in {200, 429, 503} : Response(i, st)
    \/ Budget(MaxFlow) /\ \E i \in 1..attempts : StreamError(i, "ETIMEDOUT") /\ Quiet
    \/ Budget(MaxFlow) /\ \E i \in 1..attempts : AbortFire(i) /\ Quiet

SpecFlow == Init /\ [][NextFlow]_vars

\* The same with the calls of processTweet() returning or failing at any time.
NextConsumer ==
    \/ NextFlow
    \/ ConsumerDone
    \/ ConsumerFail

SpecConsumer == Init /\ [][NextConsumer]_vars

----------------------------------------------------------------------------
(* Vocabulary of the claims *)

Min(a, b) == IF a < b THEN a ELSE b

Terminated == proc # "running"

Connecting(i) == sess[i].phase = "connecting"

Open(i) == sess[i].phase = "open"

AbortTimerPending(i) == sess[i].abortTimer # 0

ReconnectPending == BagCardinality(timers) > 0

\* the connections in use
InUse == {i \in 1..attempts : Connecting(i) \/ Open(i)}

Delayed_Kinds == {"TransportTimeout", "NotModified", "RateLimited", "ServerError"}

Recoverable_Kinds == Delayed_Kinds \cup {"SelfTimeout"}

\* the handler that produced the last outcome has just returned
Fresh == outcome'.seq # outcome.seq

----------------------------------------------------------------------------
(* C1 *)

\* C1: in every state in which stream() has been called and the process has
\* not ended, a connection request is in flight, or a stream is open with
\* its abort timer pending, or a reconnect timer is pending.
C1_NeverDeaf ==
    (attempts >= 1 /\ ~Terminated) =>
        \/ \E i \in 1..attempts : Connecting(i)
        \/ \E i \in 1..attempts : Open(i) /\ AbortTimerPending(i)
        \/ ReconnectPending

----------------------------------------------------------------------------
(* C2 *)

\* a status that is not 2xx, 304, 420, 429 or 5xx
ClientStatus(st) ==
    /\ st # 0
    /\ ~(st \in 200..299)
    /\ st \notin {304, 420, 429}
    /\ ~(st \in 500..599)

\* the last attempt ended on a ClientError or a FatalTransport
FatalEnd == ClientStatus(outcome.status) \/ outcome.err = "OTHER"

\* C2: once an attempt, first or later, has ended on a ClientError or a
\* FatalTransport, the process has shut down, no call of stream() has
\* followed, and no abort timer and no reconnect timer is pending.
C2_FatalShutsDown ==
    FatalEnd =>
        /\ Terminated
        /\ attempts = outcome.calls
        /\ ~ReconnectPending
        /\ \A i \in 1..attempts : ~AbortTimerPending(i)

----------------------------------------------------------------------------
(* C4 *)

\* C4: at most one connection is connecting or open, and no ended attempt
\* has two reconnect timers pending.
C4_OneConnection ==
    /\ Cardinality(InUse) <= 1
    /\ \A t \in BagToSet(timers) : CopiesIn(t, timers) <= 1
    /\ \A t, u \in BagToSet(timers) : t.att = u.att => t = u

----------------------------------------------------------------------------
(* C3 *)

\* C3: a handler that produces a recoverable outcome leaves the process
\* running and either has called stream() or has set a reconnect timer,
\* whatever the number of earlier attempts; and once the timer is set, a
\* further call of stream() follows, unless a fatal outcome ends the
\* process first.
C3_AlwaysRetries ==
    /\ [][(Fresh /\ outcome'.kind \in Recoverable_Kinds) =>
            /\ proc' = "running"
            /\ \/ attempts' = attempts + 1
               \/ BagCardinality(timers') = BagCardinality(timers) + 1]_vars
    /\ \A k \in 1..MaxAttempts :
         (outcome.kind \in Delayed_Kinds /\ outcome.calls = k /\ attempts = k)
             ~> (attempts > k \/ Terminated)

\* the last of the attempts Spec explores was started by a reconnect timer
C3_Witness ==
    /\ attempts = MaxAttempts
    /\ outcome.kind \in Delayed_Kinds
    /\ outcome.calls = MaxAttempts - 1
    /\ ~Terminated

----------------------------------------------------------------------------
(* C5 *)

\* C5: g_backoff is never negative; the value a ServerError outcome stores
\* is at most 320 s and the value a TransportTimeout outcome stores is at
\* most 16 s, whatever the value before.
C5_BackoffBounds ==
    /\ g_backoff >= 0
    /\ outcome.kind = "ServerError" => outcome.new <= Sec(320)
    /\ outcome.kind = "TransportTimeout" => outcome.new <= Sec(16)

\* a ServerError met a backoff above its cap, left by RateLimited
C5_Witness ==
    /\ outcome.kind = "ServerError"
    /\ outcome.prev > Sec(320)
    /\ g_backoff = Sec(320)

----------------------------------------------------------------------------
(* C6 *)

\* C6: a ServerError outcome stores 5 s when the backoff was 0 and
\* min(2 x previous, 320 s) otherwise, and sets the reconnect timer to the
\* stored value; the first three of a run that starts from 0 wait 5, 10, 20 s.
C6_ServerError ==
    outcome.kind = "ServerError" =>
        /\ outcome.new = IF outcome.prev = 0 THEN Sec(5)
                         ELSE Min(2 * outcome.prev, Sec(320))
        /\ outcome.delay = 250 * outcome.new
        /\ (run.kind = "ServerError" /\ run.n = 1) => outcome.delay = 5000
        /\ (run.kind = "ServerError" /\ run.n = 2) => outcome.delay = 10000
        /\ (run.kind = "ServerError" /\ run.n = 3) => outcome.delay = 20000

\* the third ServerError in a row, counted from backoff 0
C6_Witness ==
    /\ outcome.kind = "ServerError"
    /\ run = [kind |-> "ServerError", n |-> 3]
    /\ [att |-> outcome.att, delay |-> 20000] \in BagToSet(timers)

----------------------------------------------------------------------------
(* C7 *)

\* C7: a response 420 or 429 stores 60 s when the backoff was 0 and
\* 2 x previous otherwise, with no cap, and sets the reconnect timer to the
\* stored value; the first three of a run that starts from 0 wait 60, 120,
\* 240 s.
C7_RateLimited ==
    outcome.status \in {420, 429} =>
        /\ outcome.kind = "RateLimited"
        /\ outcome.new = IF outcome.prev = 0 THEN Sec(60) ELSE 2 * outcome.prev
        /\ outcome.delay = 250 * outcome.new
        /\ (run.kind = "RateLimited" /\ run.n = 1) => outcome.delay = 60000
        /\ (run.kind = "RateLimited" /\ run.n = 2) => outcome.delay = 120000
        /\ (run.kind = "RateLimited" /\ run.n = 3) => outcome.delay = 240000

\* the fourth RateLimited in a row: 480 s, beyond 320 s
C7_Witness ==
    /\ outcome.status \in {420, 429}
    /\ run = [kind |-> "RateLimited", n |-> 4]
    /\ g_backoff = Sec(480)
    /\ [att |-> outcome.att, delay |-> 480000] \in BagToSet(timers)

----------------------------------------------------------------------------
(* C8 *)

\* C8: an 'error' event of the body with code ETIMEDOUT stores
\* min(previous + 0.25 s, 16 s) and sets the reconnect timer to the stored
\* value; the n-th of a run that starts from 0 waits 0.25 x n seconds up to
\* n = 64 and 16 s from there on.
C8_TransportTimeout ==
    (outcome.err = "ETIMEDOUT" /\ outcome.at = "body") =>
        /\ outcome.kind = "TransportTimeout"
        /\ outcome.new = Min(outcome.prev + 1, Sec(16))
        /\ outcome.delay = 250 * outcome.new
        /\ run.kind = "TransportTimeout" =>
               outcome.delay = IF run.n <= 64 THEN 250 * run.n ELSE 16000

\* the sixty-fifth transport timeout in a row
C8_Witness ==
    /\ outcome.err = "ETIMEDOUT" /\ outcome.at = "body"
    /\ run = [kind |-> "TransportTimeout", n |-> 65]
    /\ g_backoff = Sec(16)
    /\ [att |-> outcome.att, delay |-> 16000] \in BagToSet(timers)

----------------------------------------------------------------------------
(* C9 *)

\* C9: when the body of a stream reports AbortError, the handler sets
\* g_backoff to 0 and calls stream() before it returns; it sets no
\* reconnect timer.
C9_SelfTimeout ==
    [][(Fresh /\ outcome'.err = "AbortError" /\ outcome'.at = "body") =>
          /\ outcome'.kind = "SelfTimeout"
          /\ g_backoff' = 0
          /\ attempts' = attempts + 1
          /\ sess'[Len(sess')].phase = "connecting"
          /\ timers' = timers
          /\ proc' = "running"]_vars

\* a self-inflicted timeout met a backoff that was not 0
C9_Witness ==
    /\ outcome.kind = "SelfTimeout"
    /\ outcome.prev > 0
    /\ g_backoff = 0
    /\ Connecting(attempts)

----------------------------------------------------------------------------
(* C10 *)

\* C10: a response 304 stores exactly 60 s, whatever the backoff was, and
\* sets the reconnect timer to 60 s.
C10_NotModified ==
    outcome.status = 304 =>
        /\ outcome.kind = "NotModified"
        /\ outcome.new = Sec(60)
        /\ outcome.delay = 60000

\* a 304 met a backoff above 60 s
C10_Witness ==
    /\ outcome.status = 304
    /\ outcome.prev > Sec(60)
    /\ g_backoff = Sec(60)
    /\ [att |-> outcome.att, delay |-> 60000] \in BagToSet(timers)

----------------------------------------------------------------------------
(* C11 *)

\* the step handled a 'data' event of an attempt whose abort timer had
\* already fired
DataAfterAbort == rx'.att # 0 /\ sess[rx'.att].aborted

\* C11: an attempt is ended by its abort timer at most once, with one call
\* of stream() at once; and after that no chunk of that attempt is forwarded,
\* resets the backoff or arms an abort timer.
C11_WatchdogEndsSession ==
    [][/\ (Fresh /\ outcome'.kind = "SelfTimeout") =>
            /\ ~sess[outcome'.att].aborted
            /\ attempts' = attempts + 1
       /\ DataAfterAbort =>
            /\ rx'.forwarded = << >>
            /\ g_backoff' = g_backoff
            /\ sess'[rx'.att].abortTimer = 0]_vars

----------------------------------------------------------------------------
(* C12 *)

\* the attempts whose abort timer is pending
AbortTimers == {i \in 1..attempts : AbortTimerPending(i)}

\* C12: at most one abort timer is pending in the whole program, and after a
\* chunk the timer of its attempt is pending with the full 90 s to run.
C12_OneAbortTimer ==
    /\ Cardinality(AbortTimers) <= 1
    /\ rx.att # 0 => sess[rx.att].abortTimer = ABORT_TIMEOUT * 1000

----------------------------------------------------------------------------
(* C13 *)

\* C13: a chunk that does not decode (no JSON, no data, no text string) is
\* not forwarded; its handler arms the abort timer of its attempt with the
\* full 90 s, leaves the attempt as it was, produces no outcome, sets no
\* reconnect timer, calls no stream() and does not raise the backoff.
C13_UndecodableChunk ==
    [][(rx'.att # 0 /\ ~Decodes(rx'.chunk)) =>
          /\ rx'.forwarded = << >>
          /\ sess'[rx'.att].abortTimer = ABORT_TIMEOUT * 1000
          /\ sess'[rx'.att].phase = sess[rx'.att].phase
          /\ sess'[rx'.att].listeners
          /\ outcome' = outcome
          /\ timers' = timers
          /\ attempts' = attempts
          /\ proc' = proc
          /\ g_backoff' <= g_backoff]_vars

\* a stream opened with a backoff above 0, and its last chunk was JSON
\* without a text
C13_Witness ==
    /\ rx.att # 0
    /\ rx.chunk = NoText
    /\ Open(rx.att)
    /\ outcome.kind = "Opened" /\ outcome.att = rx.att /\ outcome.new > 0
    /\ g_backoff = 0
    /\ AbortTimerPending(rx.att)

----------------------------------------------------------------------------
(* C14 *)

\* one character of the payload by the reading of the claim
Blank(ch) == IF ch \in Special THEN " " ELSE ch

\* the positions of the carriage returns of t that a line feed follows
Paired(t) == {k \in 1..Len(t) - 1 : t[k] = "CR" /\ t[k + 1] = "LF"}

\* the other positions of t
Kept(t) == (1..Len(t)) \ Paired(t)

\* the j-th of them
Nth(t, j) == CHOOSE k \in Kept(t) : Cardinality({m \in Kept(t) : m <= k}) = j

\* C14: the payload forwarded for a tweet has the length of its text, and
\* at every position a space where the text has a carriage return, a line
\* feed, '@' or '#', and the character of the text elsewhere.
C14_EveryCharReplaced ==
    (rx.att # 0 /\ Decodes(rx.chunk)) =>
        /\ Len(rx.forwarded) = 1
        /\ Len(rx.forwarded[1]) = Len(rx.chunk.text)
        /\ \A k \in 1..Len(rx.chunk.text) :
              rx.forwarded[1][k] = Blank(rx.chunk.text[k])

\* C14, amended: a carriage return that a line feed follows is replaced
\* together with it by one space; every other carriage return, line feed,
\* '@' and '#' is replaced by one space and every other character is kept,
\* so the payload is shorter than the text by the number of such pairs.
C14_Sanitized ==
    (rx.att # 0 /\ Decodes(rx.chunk)) =>
        /\ Len(rx.forwarded) = 1
        /\ Len(rx.forwarded[1]) = Len(rx.chunk.text) - Cardinality(Paired(rx.chunk.text))
        /\ \A j \in 1..Len(rx.forwarded[1]) :
              rx.forwarded[1][j] = Blank(rx.chunk.text[Nth(rx.chunk.text, j)])

\* a text that ends in a carriage return and the line feed after it
C14_Witness ==
    /\ rx.att # 0
    /\ rx.chunk = Tweet(<<"a", "CR", "LF">>)
    /\ rx.forwarded = << <<"a", " ">> >>

----------------------------------------------------------------------------
(* C15 *)

\* C15: when the abort timer of an attempt fires while its request is still
\* waiting for the response, the attempt ends as a SelfTimeout: the backoff
\* becomes 0, stream() is called at once and the process goes on.
C15_AbortWhileConnecting ==
    [][(Fresh /\ outcome'.err = "AbortError" /\ outcome'.at = "fetch") =>
          /\ outcome'.kind = "SelfTimeout"
          /\ g_backoff' = 0
          /\ attempts' = attempts + 1
          /\ proc' = "running"]_vars

----------------------------------------------------------------------------
(* C16 *)

\* C16: an attempt that ETIMEDOUT ends, while waiting for the response or
\* while streaming, ends as a TransportTimeout with a reconnect timer; and
\* an attempt ends as a FatalTransport only on a failure that is neither
\* ETIMEDOUT nor the abort of the program's own timer.
C16_TimeoutEveryPhase ==
    /\ outcome.err = "ETIMEDOUT" =>
          /\ outcome.kind = "TransportTimeout"
          /\ outcome.action = "timer"
    /\ outcome.kind = "FatalTransport" =>
          outcome.err \notin {"ETIMEDOUT", "AbortError"}

----------------------------------------------------------------------------
(* C17 *)

\* C17: a response is classified by the class of its status: every 2xx
\* opens the stream, 304 is NotModified, 420 and 429 are RateLimited, every
\* 5xx is a ServerError with a reconnect timer, and any other status is a
\* ClientError; so 201, 204, 501 and 505 do not end the process.
C17_StatusClasses ==
    /\ outcome.status \in 200..299 => outcome.kind = "Opened"
    /\ outcome.status = 304 => outcome.kind = "NotModified"
    /\ outcome.status \in {420, 429} => outcome.kind = "RateLimited"
    /\ outcome.status \in 500..599 =>
          /\ outcome.kind = "ServerError"
          /\ outcome.action = "timer"
    /\ ClientStatus(outcome.status) => outcome.kind = "ClientError"
    /\ outcome.status \in {201, 204, 501, 505} =>
          outcome.action \notin {"exit", "unhandled"}

----------------------------------------------------------------------------
(* C18 *)

\* the places of statement x in what the last 'data' handler executed
At(x) == {k \in 1..Len(rx.log) : rx.log[k] = x}

\* every x was executed before every y
Before(x, y) == \A k \in At(x), m \in At(y) : k < m

----------------------------------------------------------------------------
(* C19 *)

\* attempt i has produced its outcome
Ended(i) == sess[i].phase \in {"ended", "done"}

\* C19: an outcome that ends an attempt is the first one of that attempt,
\* whatever its body emits afterwards, and the abort timer of an attempt
\* that has produced its outcome is not pending and is not armed again.
C19_OneOutcome ==
    [][/\ (Fresh /\ outcome'.kind # "Opened") => ~Ended(outcome'.att)
       /\ \A i \in 1..attempts : Ended(i) => sess'[i].abortTimer = 0]_vars

----------------------------------------------------------------------------
(* C20 *)

\* C20: an attempt answered 304, 420, 429 or 5xx never opens a stream, and
\* in no state is a reconnect timer pending together with an abort timer.
C20_TimersApart ==
    /\ (outcome.status \in {304, 420, 429} \cup 500..599) =>
          /\ sess[outcome.att].phase = "done"
          /\ ~AbortTimerPending(outcome.att)
    /\ ~(ReconnectPending /\ AbortTimers # {})

----------------------------------------------------------------------------
(* C21 *)

\* a delayed outcome was produced and no chunk and no self-inflicted timeout
\* has followed it
NoChunkSince == run.kind # "None"

\* the rule of each kind of delayed outcome, on backoff b
Rule(kind, b) ==
    CASE kind = "TransportTimeout" -> Min(b + 1, Sec(16))
      [] kind = "NotModified" -> Sec(60)
      [] kind = "RateLimited" -> IF b = 0 THEN Sec(60) ELSE 2 * b
      [] kind = "ServerError" -> IF b = 0 THEN Sec(5) ELSE Min(2 * b, Sec(320))

\* C21: a delayed outcome that follows a delayed outcome, of the same kind
\* or of another, with no chunk in between applies the rule of its own kind
\* to the value the earlier outcome stored: a RateLimited after 5 s stores
\* 10 s and a ServerError after 60 s stores 120 s.
C21_SharedBackoff ==
    [][(NoChunkSince /\ Fresh /\ outcome'.kind \in Delayed_Kinds) =>
          /\ g_backoff = outcome.new
          /\ outcome'.prev = outcome.new
          /\ outcome'.new = Rule(outcome'.kind, outcome.new)
          /\ g_backoff' = outcome'.new
          /\ (outcome.new = Sec(5) /\ outcome'.kind = "RateLimited")
                => g_backoff' = Sec(10)
          /\ (outcome.new = Sec(60) /\ outcome'.kind = "ServerError")
                => g_backoff' = Sec(120)]_vars

\* a 304, then a ServerError that met the 60 s and doubled them
C21_Witness ==
    /\ outcome.kind = "ServerError"
    /\ run.kind = "Mixed"
    /\ outcome.prev = Sec(60)
    /\ g_backoff = Sec(120)
    /\ [att |-> outcome.att, delay |-> 120000] \in BagToSet(timers)

----------------------------------------------------------------------------
(* C22 *)

\* what each kind of delayed outcome stores on backoff 0
Base(kind) ==
    CASE kind = "TransportTimeout" -> 1
      [] kind = "NotModified" -> Sec(60)
      [] kind = "RateLimited" -> Sec(60)
      [] kind = "ServerError" -> Sec(5)

\* C22: after the handler of a chunk, keep-alive or tweet, the backoff is 0;
\* the first delayed outcome after a chunk stores the base value of its
\* kind, 5 s, 60 s or 0.25 s; and a response 200 leaves the backoff as it
\* was.
C22_ChunkResets ==
    [][/\ rx'.att # 0 => g_backoff' = 0
       /\ (Fresh /\ outcome'.kind \in Delayed_Kinds /\ ~NoChunkSince) =>
             /\ outcome'.prev = 0
             /\ outcome'.new = Base(outcome'.kind)
             /\ outcome'.delay = 250 * Base(outcome'.kind)
       /\ (Fresh /\ outcome'.status = 200) =>
             /\ outcome'.kind = "Opened"
             /\ outcome'.new = outcome'.prev
             /\ g_backoff' = g_backoff]_vars

\* a stream was opened with the backoff a 429 or a 503 had left, and a
\* keep-alive has set it to 0
C22_Witness ==
    /\ rx.att # 0
    /\ rx.chunk = Heartbeat
    /\ Open(rx.att)
    /\ outcome.kind = "Opened" /\ outcome.att = rx.att
    /\ outcome.prev > 0 /\ outcome.new = outcome.prev
    /\ g_backoff = 0

----------------------------------------------------------------------------
(* C23 *)

\* the step is the end of a call of processTweet()
ConsumerStep == consumers'.pending < consumers.pending

\* the 'data' listener of attempt i can run on chunk c now
CanHandle(i, c) == ENABLED Data(i, c)

\* C23: while a stream is open its 'data' listener can handle a chunk
\* whatever the number of calls of processTweet() that are pending; the
\* handler of a tweet adds one pending call and ends none; and the end of a
\* call, failed or not, changes nothing of the process, the backoff, the
\* attempts, their abort timers, the reconnect timers and the outcome.
C23_FireAndForget ==
    /\ [](\A i \in 1..attempts : (~Terminated /\ Open(i)) =>
            /\ CanHandle(i, Heartbeat)
            /\ consumers.pending < MaxPending => CanHandle(i, Tweet(<<"a">>)))
    /\ [][rx'.att # 0 =>
            /\ consumers'.pending = consumers.pending + Len(rx'.forwarded)
            /\ consumers'.last = consumers.last]_vars
    /\ [][ConsumerStep =>
            UNCHANGED <<proc, g_backoff, g_reader, sess, timers, outcome, run>>]_vars

\* a tweet was handled on an open stream while a call was pending, after a
\* call had failed: two calls are pending and the stream is open
C23_Witness ==
    /\ rx.att # 0
    /\ rx.forwarded # << >>
    /\ Open(rx.att) /\ AbortTimerPending(rx.att)
    /\ consumers = [pending |-> MaxPending, last |-> "failed"]
    /\ ~Terminated

====
